---------------------------- MODULE Spec2Model ----------------------------
(***************************************************************************)
(* A model of csv_file_website_to_s3_lambda.py: the Lambda handler that    *)
(* accepts CSV telemetry, validates it with validate_csv and uploads it to *)
(* S3.                                                                     *)
(*                                                                         *)
(* Representation of Python values                                         *)
(*   character  a TLA+ string naming one code point: printable ASCII and   *)
(*              "\n", "\r" name themselves, "U+005C" and "U+0060" name   *)
(*              the backslash and the backquote, "U+00E9" a two-byte       *)
(*              character and "U+D800" a lone surrogate.                   *)
(*   str        a record [head, line, reps, tail] that denotes the string  *)
(*              head \o line^reps \o tail (line repeated reps times), each *)
(*              part a sequence of characters.  A string of a few hundred  *)
(*              characters has reps = 0; the form with reps > 0 writes the *)
(*              100000-row and 10 MiB strings the caps are about.          *)
(*   bytes      the same record, over the integers 0..255.                 *)
(*   Optional   None is <<>> and a present value x is <<x>>.               *)
(*   dict       a function on its keys (a missing key is not in DOMAIN).   *)
(***************************************************************************)
EXTENDS Integers, Sequences, FiniteSets, TLC

(***************************************************************************)
(* Optional values                                                         *)
(***************************************************************************)
None == <<>>

Some(x) == <<x>>

(***************************************************************************)
(* Module constants of the program                                         *)
(***************************************************************************)
BUCKET_NAME == "test-csv-file-storage"

MAX_FILE_SIZE == 10 * 1024 * 1024

EXPECTED_HEADER ==
   << <<"E","p","i","s","o","d","e">>,
      <<"S","t","e","p">>,
      <<"H","e","a","l","t","h">>,
      <<"R","e","w","a","r","d">>,
      <<"X","V","e","l","o","c","i","t","y">>,
      <<"Y","V","e","l","o","c","i","t","y">>,
      <<"Z","V","e","l","o","c","i","t","y">>,
      <<"X","P","o","s","i","t","i","o","n">>,
      <<"Y","P","o","s","i","t","i","o","n">>,
      <<"Z","P","o","s","i","t","i","o","n">>,
      <<"A","c","t","i","o","n","F","o","r","w","a","r","d","W","i","t","h","D","e","s","c","r","i","p","t","i","o","n">>,
      <<"A","c","t","i","o","n","R","o","t","a","t","e","W","i","t","h","D","e","s","c","r","i","p","t","i","o","n">>,
      <<"W","a","s","A","g","e","n","t","F","r","o","z","e","n","?">>,
      <<"W","a","s","N","o","t","i","f","i","c","a","t","i","o","n","S","h","o","w","n","?">>,
      <<"W","a","s","R","e","w","a","r","d","D","i","s","p","e","n","s","e","d","?">>,
      <<"D","i","s","p","e","n","s","e","d","R","e","w","a","r","d","T","y","p","e">>,
      <<"C","o","l","l","e","c","t","e","d","R","e","w","a","r","d","T","y","p","e">>,
      <<"W","a","s","S","p","a","w","n","e","r","B","u","t","t","o","n","T","r","i","g","g","e","r","e","d","?">>,
      <<"C","o","m","b","i","n","e","d","S","p","a","w","n","e","r","I","n","f","o">>,
      <<"D","a","t","a","Z","o","n","e","M","e","s","s","a","g","e">>,
      <<"A","c","t","i","v","e","C","a","m","e","r","a">>,
      <<"C","o","m","b","i","n","e","d","R","a","y","c","a","s","t","D","a","t","a">> >>

max_rows == 100000

\* The literal of row[0].startswith('Positive Goals Collected').
SummaryMarker ==
   <<"P","o","s","i","t","i","v","e"," ","G","o","a","l","s"," ",
     "C","o","l","l","e","c","t","e","d">>

(***************************************************************************)
(* Characters and the str operations the program uses                      *)
(***************************************************************************)
AsciiPrintable ==
   <<" ","!","\"","#","$","%","&","'","(",")","*","+",",","-",".","/",
     "0","1","2","3","4","5","6","7","8","9",":",";","<","=",">","?","@",
     "A","B","C","D","E","F","G","H","I","J","K","L","M","N","O","P","Q",
     "R","S","T","U","V","W","X","Y","Z","[","U+005C","]","^","_","U+0060",
     "a","b","c","d","e","f","g","h","i","j","k","l","m","n","o","p","q",
     "r","s","t","u","v","w","x","y","z","{","|","}","~">>

\* ord(): the code point of each character of the model's alphabet.
Ord ==
   [c \in {AsciiPrintable[i] : i \in 1..Len(AsciiPrintable)} |->
       31 + (CHOOSE i \in 1..Len(AsciiPrintable) : AsciiPrintable[i] = c)]
   @@ ("\n" :> 10) @@ ("\r" :> 13) @@ ("U+00E9" :> 233) @@ ("U+D800" :> 55296)

Chars == DOMAIN Ord

\* chr(): the character of a code point; the code points outside the alphabet
\* share one name, which no string of the model's inputs decodes to.
Chr(cp) ==
   IF \E c \in Chars : Ord[c] = cp THEN CHOOSE c \in Chars : Ord[c] = cp
   ELSE "U+(other)"

Digits == {"0","1","2","3","4","5","6","7","8","9"}

Whitespace == {" ", "\n", "\r"}

\* s[i:j] of Python for 0 <= i <= j <= len(s).
Slice(s, i, j) == SubSeq(s, i + 1, j)

\* str.startswith(prefix)
startswith(s, prefix) ==
   /\ Len(s) >= Len(prefix)
   /\ SubSeq(s, 1, Len(prefix)) = prefix

\* str.strip(): the string without its leading and trailing whitespace.
strip(s) ==
   IF \A i \in 1..Len(s) : s[i] \in Whitespace THEN <<>>
   ELSE SubSeq(s,
               CHOOSE i \in 1..Len(s) :
                  s[i] \notin Whitespace /\ \A j \in 1..(i - 1) : s[j] \in Whitespace,
               CHOOSE i \in 1..Len(s) :
                  s[i] \notin Whitespace /\ \A j \in (i + 1)..Len(s) : s[j] \in Whitespace)

(***************************************************************************)
(* int(str) and float(str): which strings Python converts.  Both raise     *)
(* ValueError on every other string; the program only uses whether they    *)
(* raise.                                                                  *)
(***************************************************************************)
\* One or more digits, with single underscores allowed between digits.
DigitRun(s) ==
   /\ Len(s) >= 1
   /\ \A i \in 1..Len(s) : s[i] \in Digits \cup {"_"}
   /\ s[1] # "_"
   /\ s[Len(s)] # "_"
   /\ \A i \in 1..(Len(s) - 1) : ~(s[i] = "_" /\ s[i + 1] = "_")

\* The string without one leading sign.
Unsigned(s) == IF Len(s) >= 1 /\ s[1] \in {"+", "-"} THEN Tail(s) ELSE s

\* The string is one of the words, compared without case.
IsWordOf(s, lower, upper) ==
   /\ Len(s) = Len(lower)
   /\ \A i \in 1..Len(s) : s[i] \in {lower[i], upper[i]}

\* sys.get_int_max_str_digits() of the interpreter (CPython 3.11): int() of a
\* decimal string with more digits raises ValueError.
int_max_str_digits == 4300

\* The number of digits of a string; signs, spaces and underscores are not
\* counted, leading zeros are.
DigitCount(u) == Cardinality({i \in 1..Len(u) : u[i] \in Digits})

\* The text of an integer after strip() and without its sign, within the
\* limit on digits.
IsIntBody(u) == DigitRun(u) /\ DigitCount(u) <= int_max_str_digits

\* int(s) does not raise ValueError.
IsInt(s) == IsIntBody(Unsigned(strip(s)))

\* The position of the first character of s that is in set, 0 when none is.
Find(s, set) ==
   IF \E i \in 1..Len(s) : s[i] \in set
      THEN CHOOSE i \in 1..Len(s) : s[i] \in set /\ \A j \in 1..(i - 1) : s[j] \notin set
      ELSE 0

\* Digits, then optionally a point and digits; digits may lack on one side.
IsDecimalAt(m, point) ==
   IF point = 0 THEN DigitRun(m)
   ELSE \/ /\ DigitRun(SubSeq(m, 1, point - 1))
           /\ point = Len(m) \/ DigitRun(SubSeq(m, point + 1, Len(m)))
        \/ /\ point = 1
           /\ DigitRun(SubSeq(m, 2, Len(m)))

IsDecimal(m) == IsDecimalAt(m, Find(m, {"."}))

\* A decimal, then optionally an exponent: e or E, a sign, digits.
IsFloatBodyAt(u, e) ==
   IF e = 0 THEN IsDecimal(u)
   ELSE /\ IsDecimal(SubSeq(u, 1, e - 1))
        /\ DigitRun(Unsigned(SubSeq(u, e + 1, Len(u))))

IsFloatBody(u) ==
   \/ IsWordOf(u, <<"i","n","f">>, <<"I","N","F">>)
   \/ IsWordOf(u, <<"i","n","f","i","n","i","t","y">>,
                  <<"I","N","F","I","N","I","T","Y">>)
   \/ IsWordOf(u, <<"n","a","n">>, <<"N","A","N">>)
   \/ IsFloatBodyAt(u, Find(u, {"e", "E"}))

\* float(s) does not raise ValueError.
IsFloat(s) == IsFloatBody(Unsigned(strip(s)))

(***************************************************************************)
(* str and bytes values in the repeated form                               *)
(***************************************************************************)
\* The str or bytes value that is just the sequence s.
Plain(s) == [head |-> s, line |-> <<>>, reps |-> 0, tail |-> <<>>]

\* len()
StrLen(x) == Len(x.head) + x.reps * Len(x.line) + Len(x.tail)

RECURSIVE Repeat(_, _)
Repeat(s, n) == IF n = 0 THEN <<>> ELSE s \o Repeat(s, n - 1)

\* The whole sequence a value denotes.
Flat(x) == x.head \o Repeat(x.line, x.reps) \o x.tail

(***************************************************************************)
(* csv.reader over io.StringIO (the excel dialect, not strict): the        *)
(* character automaton of the reader.  StringIO hands the reader one line  *)
(* at a time, each ending at "\n"; the reader sees an end-of-line mark     *)
(* after each line.  A field longer than the reader's field limit (131072  *)
(* characters) is outside the strings of this model.                       *)
(***************************************************************************)
ParserInit ==
   [state |-> "START_RECORD", field |-> <<>>, fields |-> <<>>,
    records |-> <<>>, error |-> FALSE]

save_field(p) == [p EXCEPT !.fields = Append(@, p.field), !.field = <<>>]

add_char(p, c) == [p EXCEPT !.field = Append(@, c)]

\* parse_process_char at the start of a field.
start_field(p, c) ==
   IF c \in {"\n", "\r"}
      THEN [save_field(p) EXCEPT !.state = "EAT_CRNL"]
   ELSE IF c = "\""
      THEN [p EXCEPT !.state = "IN_QUOTED_FIELD"]
   ELSE IF c = ","
      THEN [save_field(p) EXCEPT !.state = "START_FIELD"]
   ELSE [add_char(p, c) EXCEPT !.state = "IN_FIELD"]

\* parse_process_char for a character of the line.
process_char(p, c) ==
   CASE p.state = "START_RECORD" ->
           IF c \in {"\n", "\r"} THEN [p EXCEPT !.state = "EAT_CRNL"]
           ELSE start_field(p, c)
     [] p.state = "START_FIELD" -> start_field(p, c)
     [] p.state = "IN_FIELD" ->
           IF c \in {"\n", "\r"}
              THEN [save_field(p) EXCEPT !.state = "EAT_CRNL"]
           ELSE IF c = ","
              THEN [save_field(p) EXCEPT !.state = "START_FIELD"]
           ELSE add_char(p, c)
     [] p.state = "IN_QUOTED_FIELD" ->
           IF c = "\"" THEN [p EXCEPT !.state = "QUOTE_IN_QUOTED_FIELD"]
           ELSE add_char(p, c)
     [] p.state = "QUOTE_IN_QUOTED_FIELD" ->
           IF c = "\""
              THEN [add_char(p, c) EXCEPT !.state = "IN_QUOTED_FIELD"]
           ELSE IF c = ","
              THEN [save_field(p) EXCEPT !.state = "START_FIELD"]
           ELSE IF c \in {"\n", "\r"}
              THEN [save_field(p) EXCEPT !.state = "EAT_CRNL"]
           ELSE [add_char(p, c) EXCEPT !.state = "IN_FIELD"]
     [] p.state = "EAT_CRNL" ->
           IF c \in {"\n", "\r"} THEN p
           ELSE [p EXCEPT !.error = TRUE]

\* The reader returns the record once the automaton is back at START_RECORD.
return_record(p) ==
   IF p.state = "START_RECORD"
      THEN [p EXCEPT !.records = Append(@, p.fields), !.fields = <<>>]
      ELSE p

\* parse_process_char for the end-of-line mark.
process_eol(p) ==
   CASE p.state \in {"START_FIELD", "IN_FIELD", "QUOTE_IN_QUOTED_FIELD"} ->
           return_record([save_field(p) EXCEPT !.state = "START_RECORD"])
     [] p.state = "EAT_CRNL" -> return_record([p EXCEPT !.state = "START_RECORD"])
     [] OTHER -> return_record(p)

\* The end-of-line mark follows the character that ends a line.
AfterChar(p, c) == IF p.error \/ c # "\n" THEN p ELSE process_eol(p)

\* One character of the text.
ParseStep(p, c) == IF p.error THEN p ELSE AfterChar(process_char(p, c), c)

\* The automaton after the characters s[lo..hi], halves first; it stops at
\* an error.
RECURSIVE ParseRange(_, _, _, _)
ParseRest(p, s, lo, hi) == IF p.error THEN p ELSE ParseRange(p, s, lo, hi)

ParseRange(p, s, lo, hi) ==
   IF lo > hi THEN p
   ELSE IF lo = hi THEN ParseStep(p, s[lo])
   ELSE ParseRest(ParseRange(p, s, lo, (lo + hi) \div 2), s, (lo + hi) \div 2 + 1, hi)

\* A last line without "\n" still gets its end-of-line mark.
LastLine(p, s) ==
   IF p.error \/ s = <<>> \/ s[Len(s)] = "\n" THEN p ELSE process_eol(p)

\* The input ends inside a quoted field: the reader returns the record read
\* so far.
EndOfInput(p) ==
   IF ~p.error /\ p.state = "IN_QUOTED_FIELD"
      THEN [p EXCEPT !.records = Append(@, Append(p.fields, p.field))]
      ELSE p

ParseResult(p) == [records |-> p.records, raises |-> p.error]

\* Every record the reader yields for the characters s, in order, and
\* whether it then raises csv.Error instead of stopping.
ParseChars(s) ==
   ParseResult(EndOfInput(LastLine(ParseRange(ParserInit, s, 1, Len(s)), s)))

\* The automaton is between two records.
BetweenRecords(p) == ~p.error /\ p.state = "START_RECORD"

\* The reader is between two records after the characters s, so that what
\* follows s is read as if it stood alone.
EndsRecord(s) ==
   \/ s = <<>>
   \/ /\ s[Len(s)] = "\n"
      /\ BetweenRecords(ParseRange(ParserInit, s, 1, Len(s)))

\* The reader over head, then line reps times, then tail, from what the
\* reader yields for each of them.
ChainedReader(h, l, t, reps) ==
   [pre |-> h.records, mid |-> l.records[1], reps |-> reps, post |-> t.records,
    raises |-> t.raises, pos |-> 0, count |-> 2]

SingleReader(h) ==
   [pre |-> h.records, mid |-> <<>>, reps |-> 0, post |-> <<>>,
    raises |-> h.raises, pos |-> 0, count |-> 2]

OneRecord(l) == Len(l.records) = 1 /\ ~l.raises

\* reader = csv.reader(io.StringIO(csv_data)), and enumerate(reader, start=2)
\* around it: the records of the text (pre, then mid reps times, then post),
\* whether csv.Error is raised after them, how many records next(reader) has
\* returned, and enumerate's next number.
csv_reader(x) ==
   IF /\ x.reps > 0
      /\ EndsRecord(x.head)
      /\ EndsRecord(x.line)
      /\ OneRecord(ParseChars(x.line))
      THEN ChainedReader(ParseChars(x.head), ParseChars(x.line), ParseChars(x.tail), x.reps)
      ELSE SingleReader(ParseChars(Flat(x)))

\* The number of records of the text, and the i-th of them.
RecordCount(r) == Len(r.pre) + r.reps + Len(r.post)

RecordAt(r, i) ==
   IF i <= Len(r.pre) THEN r.pre[i]
   ELSE IF i <= Len(r.pre) + r.reps THEN r.mid
   ELSE r.post[i - Len(r.pre) - r.reps]

\* No record is left in the reader.
Exhausted(r) == r.pos >= RecordCount(r)

\* The record next(reader) returns, for a reader that is not exhausted.
NextRecord(r) == RecordAt(r, r.pos + 1)

\* The reader after next(reader) returned a record.
Advance(r) == [r EXCEPT !.pos = @ + 1]

(***************************************************************************)
(* str.encode('utf-8') and bytes.decode('utf-8')                           *)
(***************************************************************************)
\* The UTF-8 bytes of one code point; a surrogate has none.
Utf8OfCodePoint(cp) ==
   IF cp < 128 THEN <<cp>>
   ELSE IF cp < 2048 THEN <<192 + (cp \div 64), 128 + (cp % 64)>>
   ELSE IF cp < 65536
      THEN <<224 + (cp \div 4096), 128 + ((cp \div 64) % 64), 128 + (cp % 64)>>
   ELSE <<240 + (cp \div 262144), 128 + ((cp \div 4096) % 64),
          128 + ((cp \div 64) % 64), 128 + (cp % 64)>>

IsSurrogate(cp) == cp >= 55296 /\ cp <= 57343

RECURSIVE Utf8EncodeRange(_, _, _)
Utf8EncodeRange(s, lo, hi) ==
   IF lo > hi THEN <<>>
   ELSE IF lo = hi THEN Utf8OfCodePoint(Ord[s[lo]])
   ELSE Utf8EncodeRange(s, lo, (lo + hi) \div 2)
        \o Utf8EncodeRange(s, (lo + hi) \div 2 + 1, hi)

\* The characters encode (no surrogate among them).
Encodable(s) == \A i \in 1..Len(s) : ~IsSurrogate(Ord[s[i]])

Utf8EncodeChars(s) == Utf8EncodeRange(s, 1, Len(s))

\* csv_data.encode('utf-8'): ok is FALSE when it raises UnicodeEncodeError.
utf8_encode(x) ==
   IF Encodable(x.head) /\ Encodable(x.line) /\ Encodable(x.tail)
      THEN [ok |-> TRUE, exc |-> "",
            bytes |-> [head |-> Utf8EncodeChars(x.head),
                       line |-> Utf8EncodeChars(x.line),
                       reps |-> x.reps,
                       tail |-> Utf8EncodeChars(x.tail)]]
      ELSE [ok |-> FALSE, exc |-> "UnicodeEncodeError", bytes |-> Plain(<<>>)]

\* The strict UTF-8 decoder, one byte at a time: need continuation bytes are
\* still due, the next one within lo..hi.
Utf8Init == [need |-> 0, cp |-> 0, lo |-> 128, hi |-> 191, out |-> <<>>, error |-> FALSE]

Utf8Step(d, b) ==
   IF d.error THEN d
   ELSE IF d.need > 0
      THEN IF b < d.lo \/ b > d.hi THEN [d EXCEPT !.error = TRUE]
           ELSE LET cp == d.cp * 64 + (b % 64)
                IN  IF d.need = 1
                       THEN [d EXCEPT !.need = 0, !.cp = 0, !.lo = 128, !.hi = 191,
                                      !.out = Append(@, Chr(cp))]
                       ELSE [d EXCEPT !.need = @ - 1, !.cp = cp, !.lo = 128, !.hi = 191]
   ELSE IF b < 128 THEN [d EXCEPT !.out = Append(@, Chr(b))]
   ELSE IF b >= 194 /\ b <= 223 THEN [d EXCEPT !.need = 1, !.cp = b - 192]
   ELSE IF b >= 224 /\ b <= 239
      THEN [d EXCEPT !.need = 2, !.cp = b - 224,
                     !.lo = IF b = 224 THEN 160 ELSE 128,
                     !.hi = IF b = 237 THEN 159 ELSE 191]
   ELSE IF b >= 240 /\ b <= 244
      THEN [d EXCEPT !.need = 3, !.cp = b - 240,
                     !.lo = IF b = 240 THEN 144 ELSE 128,
                     !.hi = IF b = 244 THEN 143 ELSE 191]
   ELSE [d EXCEPT !.error = TRUE]

RECURSIVE Utf8DecodeRange(_, _, _, _)
Utf8DecodeRest(d, b, lo, hi) == IF d.error THEN d ELSE Utf8DecodeRange(d, b, lo, hi)

Utf8DecodeRange(d, b, lo, hi) ==
   IF lo > hi THEN d
   ELSE IF lo = hi THEN Utf8Step(d, b[lo])
   ELSE Utf8DecodeRest(Utf8DecodeRange(d, b, lo, (lo + hi) \div 2), b,
                       (lo + hi) \div 2 + 1, hi)

Utf8Result(d) ==
   IF d.error \/ d.need > 0
      THEN [ok |-> FALSE, exc |-> "UnicodeDecodeError", str |-> Plain(<<>>)]
      ELSE [ok |-> TRUE, exc |-> "", str |-> Plain(d.out)]

Utf8DecodeBytes(b) == Utf8Result(Utf8DecodeRange(Utf8Init, b, 1, Len(b)))

\* bytes.decode('utf-8'): ok is FALSE when it raises UnicodeDecodeError.
utf8_decode(x) == Utf8DecodeBytes(Flat(x))

(***************************************************************************)
(* base64.b64decode(s) for a str s (validate=False): binascii.a2b_base64   *)
(***************************************************************************)
Base64Alphabet ==
   <<"A","B","C","D","E","F","G","H","I","J","K","L","M","N","O","P","Q",
     "R","S","T","U","V","W","X","Y","Z",
     "a","b","c","d","e","f","g","h","i","j","k","l","m","n","o","p","q",
     "r","s","t","u","v","w","x","y","z",
     "0","1","2","3","4","5","6","7","8","9","+","/">>

\* The 6-bit value of a character of the alphabet, 64 for any other.
Base64Value(c) ==
   IF \E i \in 1..64 : Base64Alphabet[i] = c
      THEN (CHOOSE i \in 1..64 : Base64Alphabet[i] = c) - 1
      ELSE 64

B64Init == [quad_pos |-> 0, leftchar |-> 0, pads |-> 0, out |-> <<>>, done |-> FALSE]

\* A character with 6-bit value v; 64 marks a character that is skipped.
B64Data(d, v) ==
   IF v = 64 THEN d
   ELSE CASE d.quad_pos = 0 ->
               [d EXCEPT !.pads = 0, !.quad_pos = 1, !.leftchar = v]
          [] d.quad_pos = 1 ->
               [d EXCEPT !.pads = 0, !.quad_pos = 2,
                         !.out = Append(@, d.leftchar * 4 + (v \div 16)),
                         !.leftchar = v % 16]
          [] d.quad_pos = 2 ->
               [d EXCEPT !.pads = 0, !.quad_pos = 3,
                         !.out = Append(@, d.leftchar * 16 + (v \div 4)),
                         !.leftchar = v % 4]
          [] d.quad_pos = 3 ->
               [d EXCEPT !.pads = 0, !.quad_pos = 0,
                         !.out = Append(@, d.leftchar * 64 + v),
                         !.leftchar = 0]

B64Step(d, c) ==
   IF d.done THEN d
   ELSE IF c = "="
      THEN IF d.quad_pos >= 2 /\ d.quad_pos + d.pads + 1 >= 4
              THEN [d EXCEPT !.done = TRUE]
           ELSE IF d.quad_pos >= 2 THEN [d EXCEPT !.pads = @ + 1]
           ELSE d
   ELSE B64Data(d, Base64Value(c))

RECURSIVE B64DecodeRange(_, _, _, _)
B64DecodeRest(d, s, lo, hi) == IF d.done THEN d ELSE B64DecodeRange(d, s, lo, hi)

B64DecodeRange(d, s, lo, hi) ==
   IF lo > hi THEN d
   ELSE IF lo = hi THEN B64Step(d, s[lo])
   ELSE B64DecodeRest(B64DecodeRange(d, s, lo, (lo + hi) \div 2), s,
                      (lo + hi) \div 2 + 1, hi)

B64Result(d) ==
   IF ~d.done /\ d.quad_pos # 0
      THEN [ok |-> FALSE, exc |-> "binascii.Error", bytes |-> Plain(<<>>)]
      ELSE [ok |-> TRUE, exc |-> "", bytes |-> Plain(d.out)]

B64DecodeChars(s) ==
   IF \E i \in 1..Len(s) : Ord[s[i]] > 127
      THEN [ok |-> FALSE, exc |-> "ValueError", bytes |-> Plain(<<>>)]
      ELSE B64Result(B64DecodeRange(B64Init, s, 1, Len(s)))

\* base64.b64decode(x): ok is FALSE when it raises (a character that is not
\* ASCII: ValueError; an incomplete last group: binascii.Error).
b64decode(x) == B64DecodeChars(Flat(x))

\* .decode('utf-8') of what b64decode returned, when it returned.
DecodeIfOk(b) ==
   IF b.ok THEN utf8_decode(b.bytes)
   ELSE [ok |-> FALSE, exc |-> b.exc, str |-> Plain(<<>>)]

\* A variant that strips the decoded text: .decode('utf-8').strip()
b64decode_utf8_strip(x) ==
   [DecodeIfOk(b64decode(x)) EXCEPT !.str = Plain(strip(Flat(@)))]

\* base64.b64decode(csv_data).decode('utf-8')
b64decode_utf8(x) == DecodeIfOk(b64decode(x))

\* base64.b64encode(b), the client's side of encoding "base64": the four
\* characters of each group of up to three bytes, groups lo to hi.
Base64Group(b, g) ==
   LET ch(v) == Base64Alphabet[v + 1]
       i == 3 * g - 2
   IN  IF i = Len(b)
          THEN <<ch(b[i] \div 4), ch((b[i] % 4) * 16), "=", "=">>
       ELSE IF i + 1 = Len(b)
          THEN <<ch(b[i] \div 4), ch((b[i] % 4) * 16 + (b[i + 1] \div 16)),
                 ch((b[i + 1] % 16) * 4), "=">>
       ELSE <<ch(b[i] \div 4), ch((b[i] % 4) * 16 + (b[i + 1] \div 16)),
              ch((b[i + 1] % 16) * 4 + (b[i + 2] \div 64)), ch(b[i + 2] % 64)>>

RECURSIVE Base64Groups(_, _, _)
Base64Groups(b, lo, hi) ==
   IF lo > hi THEN <<>>
   ELSE IF lo = hi THEN Base64Group(b, lo)
   ELSE Base64Groups(b, lo, (lo + hi) \div 2)
        \o Base64Groups(b, (lo + hi) \div 2 + 1, hi)

b64encode_seq(b) == Base64Groups(b, 1, (Len(b) + 2) \div 3)

(***************************************************************************)
(* validate_csv: the verdicts and the checks of one record                 *)
(***************************************************************************)
NoReader == [pre |-> <<>>, mid |-> <<>>, reps |-> 0, post |-> <<>>,
             raises |-> FALSE, pos |-> 0, count |-> 2]

Invalid(fmt, params) ==
   [valid |-> FALSE, error |-> Some([fmt |-> fmt, params |-> params]),
    row_count |-> None]

Valid(n) == [valid |-> TRUE, error |-> None, row_count |-> Some(n)]

\* except Exception as e: the verdict of the outer handler, str(e) its detail.
ParsingError(detail) == Invalid("CSV parsing error: {str(e)}", <<detail>>)

CsvErrorText ==
   "new-line character seen in unquoted field - do you need to open the file in universal-newline mode?"

\* A variant that compares the number of columns only.
HeaderLengthMismatch(header) == Len(header) # Len(EXPECTED_HEADER)

\* header != EXPECTED_HEADER
HeaderMismatch(header) == header # EXPECTED_HEADER

\* A variant that is off by one.
TooManyRowsAtCap(count) == count >= max_rows

\* row_count > max_rows, tested on the counter after its increment.
TooManyRows(count) == count > max_rows

\* len(row) != len(EXPECTED_HEADER)
WrongColumnCount(row) == Len(row) # Len(EXPECTED_HEADER)

\* A variant that compares the whole field with the marker.
IsSummaryRowExactly(row) == row[1] = SummaryMarker

\* row[0].startswith('Positive Goals Collected'), for a row that has a row[0].
IsSummaryRow(row) == startswith(row[1], SummaryMarker)

\* A variant that also converts row[10].
NumericFieldsThroughTen(row) ==
   /\ IsInt(row[1])
   /\ IsInt(row[2])
   /\ IsFloat(row[3])
   /\ IsFloat(row[4])
   /\ \A i \in 4..10 : IsFloat(row[i + 1])

\* The try block of the numeric fields raises no ValueError: int() of row[0]
\* and row[1], float() of row[2], row[3] and row[i] for i in range(4, 10).
NumericFieldsOk(row) ==
   /\ IsInt(row[1])
   /\ IsInt(row[2])
   /\ IsFloat(row[3])
   /\ IsFloat(row[4])
   /\ \A i \in 4..9 : IsFloat(row[i + 1])

\* A variant that names the row counter in the message of a numeric failure.
CheckRowNamesCounter(row, num, count) ==
   IF TooManyRows(count)
      THEN Some(Invalid("Too many rows (max {max_rows})", <<max_rows>>))
   ELSE IF WrongColumnCount(row)
      THEN IF Len(row) = 0
              THEN Some(ParsingError("list index out of range"))
           ELSE IF IsSummaryRow(row) THEN None
           ELSE Some(Invalid(
                   "Row {row_num}: Expected {len(EXPECTED_HEADER)} columns, got {len(row)}. ({row})",
                   <<num, Len(EXPECTED_HEADER), Len(row), row>>))
   ELSE IF ~NumericFieldsOk(row)
      THEN Some(Invalid("Row {row_num}: Invalid numeric values in required fields",
                        <<count>>))
   ELSE None

\* The body of the for loop for one row: the verdict it returns, or None when
\* the loop goes on to the next row.  count is row_count after its increment.
CheckRow(row, num, count) ==
   IF TooManyRows(count)
      THEN Some(Invalid("Too many rows (max {max_rows})", <<max_rows>>))
   ELSE IF WrongColumnCount(row)
      THEN IF Len(row) = 0
              \* row[0] raises IndexError, caught by the outer handler
              THEN Some(ParsingError("list index out of range"))
           ELSE IF IsSummaryRow(row) THEN None
           ELSE Some(Invalid(
                   "Row {row_num}: Expected {len(EXPECTED_HEADER)} columns, got {len(row)}. ({row})",
                   <<num, Len(EXPECTED_HEADER), Len(row), row>>))
   ELSE IF ~NumericFieldsOk(row)
      THEN Some(Invalid("Row {row_num}: Invalid numeric values in required fields",
                        <<num>>))
   ELSE None

\* A variant without the test for an empty file.
AfterLoopNoTest(count) == Valid(count)

\* The locals of the loop, and what a pass of it returned, if it did.
LoopState(rdr, count, num, returned) ==
   [reader |-> rdr, row_count |-> count, row_num |-> num, returned |-> returned]

\* One pass of the for loop over enumerate(reader, start=2).
ForBody(st) ==
   LoopState([Advance(st.reader) EXCEPT !.count = @ + 1],
             st.row_count + 1,
             st.reader.count,
             CheckRow(NextRecord(st.reader), st.reader.count, st.row_count + 1))

\* n passes of the loop, or fewer if one returns; the first half of them
\* first.
RECURSIVE ForPasses(_, _)
ForPassesMore(st, n) == IF st.returned # None THEN st ELSE ForPasses(st, n)

ForPasses(st, n) ==
   IF n = 0 THEN st
   ELSE IF n = 1 THEN ForBody(st)
   ELSE ForPassesMore(ForPasses(st, n \div 2), n - (n \div 2))

\* The loop runs until a pass returns or the reader has no record left.
ForLoop(st) == ForPasses(st, RecordCount(st.reader) - st.reader.pos)

\* The statements after the loop.
AfterLoop(count) ==
   IF count = 0 THEN Invalid("No data rows found", <<>>)
   ELSE Valid(count)

(***************************************************************************)
(* The inputs the model is checked on.  A CSV text is written from records *)
(* the way csv.writer writes them (minimal quoting), or given as raw       *)
(* characters.                                                             *)
(***************************************************************************)
\* Data rows after the header of a written document: at most this many.
MaxDataRows == 2

NeedsQuotes(f) == \E i \in 1..Len(f) : f[i] \in {",", "\"", "\n", "\r"}

RECURSIVE DoubleQuotes(_)
DoubleQuotes(f) ==
   IF f = <<>> THEN <<>>
   ELSE (IF Head(f) = "\"" THEN <<"\"", "\"">> ELSE <<Head(f)>>) \o DoubleQuotes(Tail(f))

WriteField(f) ==
   IF NeedsQuotes(f) THEN <<"\"">> \o DoubleQuotes(f) \o <<"\"">> ELSE f

RECURSIVE JoinFields(_)
JoinFields(row) ==
   IF Len(row) = 0 THEN <<>>
   ELSE IF Len(row) = 1 THEN WriteField(row[1])
   ELSE WriteField(row[1]) \o <<",">> \o JoinFields(Tail(row))

\* writer.writerow(row) with line terminator nl; a lone empty field is quoted.
WriteRow(row, nl) ==
   (IF row = << <<>> >> THEN <<"\"", "\"">> ELSE JoinFields(row)) \o nl

RECURSIVE WriteRows(_, _)
WriteRows(rows, nl) ==
   IF rows = <<>> THEN <<>> ELSE WriteRow(Head(rows), nl) \o WriteRows(Tail(rows), nl)

\* A row that passes every check: the numeric fields in the forms int() and
\* float() accept, the fields at indices 10 to 21 arbitrary text.
GoodRow ==
   << <<"1">>, <<"-","2">>, <<"1",".","5">>, <<"n","a","n">>, <<" ","7"," ">>,
      <<"1","e","5">>, <<"0">>, <<".","5">>, <<"1","_","0">>, <<"+","3">>,
      <<"x">>, <<>>, SummaryMarker, <<"a",",","b">>, <<"s","a","i","d"," ","\"","h","i","\"">>,
      <<"1",".","5">>, <<"U+00E9">>, <<"-">>, <<"l","1","\n","l","2">>, <<" ">>,
      <<"n","o","n","e">>, <<"?">> >>

\* The shortest passing row.
PlainRow ==
   [i \in 1..22 |-> IF i <= 10 THEN <<"1">> ELSE <<>>]

SummaryField == SummaryMarker \o <<":"," ","3">>

\* 22-column rows with one numeric field that does not convert.
BadNumericRows ==
   {[GoodRow EXCEPT ![i] = <<"x">>] : i \in 1..10}
   \cup {[GoodRow EXCEPT ![1] = <<"1",".","5">>], [GoodRow EXCEPT ![2] = <<>>],
         [GoodRow EXCEPT ![2] = <<"n","a","n">>], [GoodRow EXCEPT ![10] = <<"1","e">>],
         [PlainRow EXCEPT ![3] = <<"0","x","1">>]}

\* Rows whose number of columns is not 22 and that are no summary rows.
WrongCountRows ==
   { <<>>, << <<>> >>, << <<"x">> >>, SubSeq(GoodRow, 1, 21), Append(GoodRow, <<"x">>),
     << <<"p","o","s","i","t","i","v","e">> \o SubSeq(SummaryMarker, 9, 24) >>,
     << <<" ">> \o SummaryMarker, <<"1">> >> }

\* Rows whose first field starts with the marker, of several widths.
SummaryRows ==
   { << SummaryField >>, << SummaryMarker, <<"3">> >>,
     [GoodRow EXCEPT ![1] = SummaryField],
     SubSeq([GoodRow EXCEPT ![1] = SummaryField], 1, 21),
     Append([GoodRow EXCEPT ![1] = SummaryMarker], <<"x">>) }

\* n times the digit 1.
Ones(n) == [i \in 1..n |-> "1"]

\* Passing rows with numbers at and over the limit of int(): an integer field
\* of int_max_str_digits digits with sign and spaces, and a float field of one
\* digit more, which float() converts.
LongNumberRows ==
   {[PlainRow EXCEPT ![2] = <<" ", "-">> \o Ones(int_max_str_digits) \o <<" ">>],
    [PlainRow EXCEPT ![3] = Ones(int_max_str_digits + 1)]}

\* 22-column rows with an integer field of one digit more than int() converts.
TooManyDigitsRows ==
   {[PlainRow EXCEPT ![1] = Ones(int_max_str_digits + 1)],
    [PlainRow EXCEPT ![2] = <<"-", "0">> \o Ones(int_max_str_digits)]}

\* The rows a document may end with, and the rows that may come before.
LastRows == {GoodRow, PlainRow} \cup BadNumericRows \cup WrongCountRows \cup SummaryRows

EarlierRows ==
   {GoodRow, << SummaryField >>, [GoodRow EXCEPT ![5] = <<"x">>], << <<"x">> >>}

RECURSIVE RowSeqs(_)
RowSeqs(n) ==
   IF n = 0 THEN { <<>> }
   ELSE RowSeqs(n - 1) \cup
        { Append(pre, last) : pre \in [1..(n - 1) -> EarlierRows], last \in LastRows }

\* Headers that differ from the schema in case, order, an element or length.
BadHeaders ==
   { [EXPECTED_HEADER EXCEPT ![1] = <<"e","p","i","s","o","d","e">>],
     [EXPECTED_HEADER EXCEPT ![1] = EXPECTED_HEADER[2], ![2] = EXPECTED_HEADER[1]],
     [EXPECTED_HEADER EXCEPT ![22] = <<"C","o","m","b","i","n","e","d">>],
     [EXPECTED_HEADER EXCEPT ![3] = Append(EXPECTED_HEADER[3], " ")],
     SubSeq(EXPECTED_HEADER, 1, 21),
     Append(EXPECTED_HEADER, <<"E","x","t","r","a">>),
     GoodRow,
     <<>> }

HeaderLine == WriteRow(EXPECTED_HEADER, <<"\n">>)

\* Texts given as characters: no text at all, lines the writer would not
\* write (a stray carriage return, an unclosed quote), a last line without
\* its line terminator.
RawTexts ==
   { <<>>, <<"\n">>, <<"\r">>, <<"x">>, <<"\"">>,
     JoinFields(EXPECTED_HEADER),
     HeaderLine \o <<"\n">>,
     HeaderLine \o JoinFields(PlainRow),
     HeaderLine \o <<"1", "\r", "2", "\n">>,
     HeaderLine \o WriteRow(PlainRow, <<"\n">>) \o <<"1", "\r", "2", "\n">>,
     HeaderLine \o <<"x", "\r", "y", "\n">> \o WriteRow(PlainRow, <<"\n">>),
     HeaderLine \o <<"\"", "1", ",", "1", "\n">> \o WriteRow(PlainRow, <<"\n">>),
     HeaderLine \o <<"\"">> \o JoinFields(PlainRow),
     <<"x", "\r", "y", "\n">> \o HeaderLine,
     <<"\"">> \o HeaderLine }

\* The texts of a few hundred characters.
SmallTexts ==
   {Plain(WriteRow(EXPECTED_HEADER, <<"\n">>) \o WriteRows(rows, <<"\n">>)) :
       rows \in RowSeqs(MaxDataRows)}
   \cup {Plain(WriteRow(EXPECTED_HEADER, <<"\r", "\n">>) \o WriteRows(rows, <<"\r", "\n">>)) :
       rows \in RowSeqs(1)}
   \cup {Plain(WriteRow(h, <<"\n">>) \o WriteRows(rows, <<"\n">>)) :
       h \in BadHeaders,
       rows \in { <<>>, <<GoodRow>>, <<GoodRow, GoodRow>>, << << <<"x">> >> >> }}
   \cup {Plain(t) : t \in RawTexts}
   \cup {Plain(HeaderLine \o WriteRows(<<PlainRow, r, PlainRow>>, <<"\n">>)) :
            r \in LongNumberRows \cup TooManyDigitsRows}

\* The header, the shortest passing row max_rows - 1 times, and a few rows.
ManyRows(last) ==
   [head |-> HeaderLine, line |-> WriteRow(PlainRow, <<"\n">>), reps |-> max_rows - 1,
    tail |-> WriteRows(last, <<"\n">>)]

\* max_rows passing rows and one more, which alone would fail a row check.
LongTexts ==
   {ManyRows(<<PlainRow, r>>) : r \in {[GoodRow EXCEPT ![1] = <<"x">>], << <<"x">> >>}}

(***************************************************************************)
(* Requests, responses and the bucket                                      *)
(***************************************************************************)
\* event.get(key, default)
Get(dict, key, default) == IF key \in DOMAIN dict THEN dict[key] ELSE default

\* What datetime.utcnow().isoformat() may return: every call reads the clock
\* of the machine, and two calls of one invocation may get different instants.
Clock == {"2026-01-01T00:00:00.000001", "2026-01-01T00:00:01.500000"}

\* generate_session_id(): hashlib.md5(timestamp.encode()).hexdigest()[:12],
\* timestamp being the clock as generate_session_id reads it.
generate_session_id(timestamp) ==
   CASE timestamp = "2026-01-01T00:00:00.000001" -> "af6ea3c70152"
     [] timestamp = "2026-01-01T00:00:01.500000" -> "9fe3071b5d0f"

\* str() of a natural number.
RECURSIVE str(_)
str(n) == IF n < 10 THEN <<Chr(48 + n)>> ELSE Append(str(n \div 10), Chr(48 + (n % 10)))

\* str() of an Optional[str] inside an f-string.
Format(opt) == IF opt = None THEN "None" ELSE opt[1]

ResponseHeaders ==
   [AccessControlAllowOrigin |-> "*", AccessControlAllowHeaders |-> "Content-Type",
    ContentType |-> "application/json"]

Message(fmt, params) == [fmt |-> fmt, params |-> params]

\* error_response(status_code, message); body is the dict json.dumps writes.
error_response(status_code, message) ==
   [statusCode |-> status_code, headers |-> ResponseHeaders,
    body |-> [error |-> message]]

\* The success response of lambda_handler.
success_response(key, count, sid) ==
   [statusCode |-> 200, headers |-> ResponseHeaders,
    body |-> [message |-> "Telemetry uploaded successfully", s3_key |-> key,
              row_count |-> count, session_id |-> sid]]

\* A variant with the parts in the other order.
S3KeySessionFirst(uid, sid) == <<sid, "/", Format(uid), ".csv">>

\* f"{user_id}/{session_id}.csv", as the parts it is made of.
S3Key(uid, sid) == <<Format(uid), "/", sid, ".csv">>

\* The keyword arguments of s3_client.put_object.
PutArgs(key, body, sid, count, timestamp) ==
   [Bucket |-> BUCKET_NAME, Key |-> key, Body |-> body, ContentType |-> "text/csv",
    Metadata |-> [session_id |-> sid, row_count |-> str(count),
                  upload_timestamp |-> timestamp]]

\* The bucket after a put that succeeded.
Stored(bucket, args) ==
   [k \in DOMAIN bucket \cup {args.Key} |->
       IF k = args.Key
          THEN [Body |-> args.Body, ContentType |-> args.ContentType,
                Metadata |-> args.Metadata]
          ELSE bucket[k]]

\* A variant that is off by one.
FileTooLargeAtCap(size) == size >= MAX_FILE_SIZE

\* len(csv_data.encode('utf-8')) > MAX_FILE_SIZE
FileTooLarge(size) == size > MAX_FILE_SIZE

(***************************************************************************)
(* The requests the model is checked on                                    *)
(***************************************************************************)
Request(text, enc) ==
   [csv_data |-> text, encoding |-> enc, session_id |-> "s1", user_id |-> "u1"]

\* The base64 text of the UTF-8 bytes of a str that encodes.
Base64Of(text) == Plain(b64encode_seq(Flat(utf8_encode(text).bytes)))

OneRowText == Plain(HeaderLine \o WriteRow(GoodRow, <<"\n">>))

\* The header, 32-byte rows, and a last line without terminator that brings
\* the UTF-8 size to MAX_FILE_SIZE + over.
FilledText(head, line, room, over) ==
   [head |-> head, line |-> line, reps |-> room \div Len(line),
    tail |-> [i \in 1..((room % Len(line)) + over) |-> "x"]]

SizedText(over) ==
   FilledText(HeaderLine, WriteRow(PlainRow, <<"\n">>),
              MAX_FILE_SIZE - Len(HeaderLine), over)

\* A text of MAX_FILE_SIZE + over bytes whose second record has one column.
ShortRowText(over) ==
   FilledText(HeaderLine \o <<"x", "\n">>, WriteRow(PlainRow, <<"\n">>),
              MAX_FILE_SIZE - Len(HeaderLine) - 2, over)

\* base64 texts that are not the encoding of a CSV text: incomplete groups,
\* a character outside ASCII, bytes that are not UTF-8, padding only,
\* ignored characters, and the encoding of a lone "x".
OddBase64 ==
   { <<"Y","Q">>, <<"Y">>, <<"Y","Q","=">>, <<"Y","W","J","j","Z","A">>,
     <<"Y","Q","=","=","U+00E9">>, <<"/","w","=","=">>, <<"w","6","k">>,
     <<"7","a","C","A">>, <<"=","=","=","=">>, <<"!","!">>,
     <<"e","A","=","=">>, <<"e","A","=","=","e","A","=","=">>, <<"e"," ","A","=","\n","=">> }

Requests ==
   {Request(t, "plain") : t \in SmallTexts}
   \cup {Request(Base64Of(OneRowText), e) : e \in {"base64", "plain", "BASE64"}}
   \cup {Request(Plain(w), "base64") : w \in OddBase64}
   \cup {Request(Plain(HeaderLine \o <<"U+D800", "\n">>), "plain"),
         Request(Plain(<<"U+D800">>), "base64")}
   \cup {[k \in keys |-> Request(OneRowText, "plain")[k]] :
            keys \in SUBSET {"csv_data", "encoding", "session_id", "user_id"}}
   \cup {[k \in keys |-> Request(Base64Of(OneRowText), "base64")[k]] :
            keys \in {{"csv_data", "encoding"}, {"encoding"}}}
   \cup {Request(ShortRowText(0), "plain"), Request(ShortRowText(1), "plain"),
         Request(SizedText(1), "plain")}

\* The request whose text has max_rows rows.
LongRequests == {Request(ManyRows(<<PlainRow>>), "plain")}

(***************************************************************************)
(* The state: one process that serves invocations one after the other.     *)
(***************************************************************************)
VARIABLES
   entry,              \* the function called: "lambda_handler" or "validate_csv"
   pc,                 \* the statement control is at
   invocation,         \* 1 for the first invocation, 2 for the next
   event,              \* lambda_handler's event
   csv_data,           \* the local csv_data, and validate_csv's parameter
   encoding,           \* locals of lambda_handler
   session_id,
   user_id,
   s3_key,
   validation_result,  \* what validate_csv returned
   reader,             \* locals of validate_csv
   row_count,
   row_num,
   response,           \* what lambda_handler returned
   put_calls,          \* the calls of s3_client.put_object in this invocation,
                       \* each with its arguments and whether the object was stored
   s3,                 \* the objects of the bucket, by key
   previous            \* response and put_calls of the invocation before

vars ==
   <<entry, pc, invocation, event, csv_data, encoding, session_id, user_id, s3_key,
     validation_result, reader, row_count, row_num, response, put_calls, s3, previous>>

handler_locals == <<encoding, session_id, user_id, s3_key>>

validate_locals == <<reader, row_count, row_num>>

outside == <<put_calls, s3, previous>>

InitLocals ==
   /\ invocation = 1
   /\ encoding = "plain"
   /\ session_id = ""
   /\ user_id = None
   /\ s3_key = <<>>
   /\ validation_result = None
   /\ reader = NoReader
   /\ row_count = 0
   /\ row_num = 0
   /\ response = None
   /\ put_calls = <<>>
   /\ s3 = <<>>
   /\ previous = None

\* validate_csv(text) called on its own.
ValidateCalled(text) ==
   /\ entry = "validate_csv"
   /\ pc = "read_header"
   /\ event = <<>>
   /\ csv_data = Some(text)
   /\ InitLocals

\* lambda_handler(ev, context)
HandlerCalled(ev) ==
   /\ entry = "lambda_handler"
   /\ pc = "start"
   /\ event = ev
   /\ csv_data = None
   /\ InitLocals

Init ==
   \/ \E text \in SmallTexts \cup LongTexts : ValidateCalled(text)
   \/ \E ev \in Requests \cup LongRequests : HandlerCalled(ev)

(***************************************************************************)
(* validate_csv                                                            *)
(***************************************************************************)
\* return verdict, to the caller.
Return(verdict) ==
   /\ validation_result' = Some(verdict)
   /\ pc' = IF entry = "validate_csv" THEN "done" ELSE "check_verdict"

\* Creating the reader, reading the header and comparing it.
ReadHeader ==
   /\ pc = "read_header"
   /\ \E r \in {csv_reader(csv_data[1])} :
          IF Exhausted(r)
             THEN /\ Return(IF r.raises THEN ParsingError(CsvErrorText)
                            ELSE Invalid("Empty CSV file", <<>>))
                  /\ reader' = r
                  /\ UNCHANGED <<row_count, row_num>>
          ELSE IF HeaderMismatch(NextRecord(r))
             THEN /\ Return(Invalid(
                        "Header mismatch. Expected {len(EXPECTED_HEADER)} columns, got {len(header)}",
                        <<Len(EXPECTED_HEADER), Len(NextRecord(r))>>))
                  /\ reader' = Advance(r)
                  /\ UNCHANGED <<row_count, row_num>>
          ELSE /\ reader' = Advance(r)
               /\ row_count' = 0
               /\ pc' = "rows"
               /\ UNCHANGED <<validation_result, row_num>>
   /\ UNCHANGED <<entry, invocation, event, csv_data, handler_locals, response, outside>>

\* The for loop over enumerate(reader, start=2), to its end, and the
\* statements after it.
ValidateRows ==
   /\ pc = "rows"
   /\ \E st \in {ForLoop(LoopState(reader, row_count, row_num, None))} :
          /\ reader' = st.reader
          /\ row_count' = st.row_count
          /\ row_num' = st.row_num
          /\ Return(IF st.returned # None THEN st.returned[1]
                    ELSE IF st.reader.raises THEN ParsingError(CsvErrorText)
                    ELSE AfterLoop(st.row_count))
   /\ UNCHANGED <<entry, invocation, event, csv_data, handler_locals, response, outside>>

(***************************************************************************)
(* lambda_handler                                                          *)
(***************************************************************************)
\* return response
Respond(r) ==
   /\ response' = Some(r)
   /\ pc' = "done"

\* Reading the event and the test of csv_data.  The default of the session
\* id is an argument of event.get, so generate_session_id() is called, and
\* reads the clock, whether the event has a session id or not.
HandlerStart ==
   /\ pc = "start"
   /\ csv_data' = IF "csv_data" \in DOMAIN event THEN Some(event.csv_data) ELSE None
   /\ encoding' = Get(event, "encoding", "plain")
   /\ \E now \in Clock :
         session_id' = Get(event, "session_id", generate_session_id(now))
   /\ user_id' = IF "user_id" \in DOMAIN event THEN Some(event.user_id) ELSE None
   /\ IF "csv_data" \notin DOMAIN event \/ StrLen(event.csv_data) = 0
         THEN Respond(error_response(400,
                 Message("Missing csv_data in request body. Got {event}", <<event>>)))
         ELSE pc' = "decode" /\ UNCHANGED response
   /\ UNCHANGED <<entry, invocation, event, s3_key, validation_result, validate_locals,
                  outside>>

\* if encoding == 'base64': csv_data = base64.b64decode(csv_data).decode('utf-8')
DecodeBase64 ==
   /\ pc = "decode"
   /\ IF encoding = "base64"
         THEN \E u \in {b64decode_utf8(csv_data[1])} :
                 IF ~u.ok
                    THEN /\ Respond(error_response(400,
                               Message("Invalid base64 encoding: {str(e)}", <<u.exc>>)))
                         /\ UNCHANGED csv_data
                    ELSE /\ csv_data' = Some(u.str)
                         /\ pc' = "check_size"
                         /\ UNCHANGED response
         ELSE /\ pc' = "check_size"
              /\ UNCHANGED <<csv_data, response>>
   /\ UNCHANGED <<entry, invocation, event, handler_locals, validation_result,
                  validate_locals, outside>>

\* The size test; encode raising is caught by the handler's outer except.
CheckSize ==
   /\ pc = "check_size"
   /\ \E e \in {utf8_encode(csv_data[1])} :
          IF ~e.ok
             THEN Respond(error_response(500, Message("Internal server error", <<>>)))
          ELSE IF FileTooLarge(StrLen(e.bytes))
             THEN Respond(error_response(413,
                     Message("File too large. Max size: {MAX_FILE_SIZE} bytes",
                             <<MAX_FILE_SIZE>>)))
          ELSE pc' = "read_header" /\ UNCHANGED response
   /\ UNCHANGED <<entry, invocation, event, csv_data, handler_locals, validation_result,
                  validate_locals, outside>>

\* The test of the verdict, and the key.
CheckVerdict ==
   /\ pc = "check_verdict"
   /\ IF ~validation_result[1].valid
         THEN /\ Respond(error_response(400,
                    Message("Invalid CSV: {validation_result['error']}",
                            <<validation_result[1].error[1]>>)))
              /\ UNCHANGED s3_key
         ELSE /\ s3_key' = S3Key(user_id, session_id)
              /\ pc' = "put"
              /\ UNCHANGED response
   /\ UNCHANGED <<entry, invocation, event, csv_data, encoding, session_id, user_id,
                  validation_result, validate_locals, outside>>

\* s3_client.put_object(...): the service stores the object or raises.  The
\* upload timestamp is a reading of the clock of its own.
PutObject ==
   /\ pc = "put"
   /\ \E args \in {PutArgs(s3_key, utf8_encode(csv_data[1]).bytes, session_id,
                             validation_result[1].row_count[1], now) : now \in Clock} :
          \E stored \in BOOLEAN :
             /\ put_calls' = Append(put_calls, [args |-> args, stored |-> stored])
             /\ IF stored
                   THEN /\ s3' = Stored(s3, args)
                        /\ pc' = "respond"
                        /\ UNCHANGED response
                   ELSE /\ Respond(error_response(500,
                              Message("S3 upload failed: {str(e)}", <<"ClientError">>)))
                        /\ UNCHANGED s3
   /\ UNCHANGED <<entry, invocation, event, csv_data, handler_locals, validation_result,
                  validate_locals, previous>>

\* The response after the upload.
RespondOk ==
   /\ pc = "respond"
   /\ Respond(success_response(s3_key, validation_result[1].row_count[1], session_id))
   /\ UNCHANGED <<entry, invocation, event, csv_data, handler_locals, validation_result,
                  validate_locals, outside>>

\* A request carried its text as it is: plain text that can be sent again in
\* base64.
SentPlain(ev) ==
   /\ "csv_data" \in DOMAIN ev
   /\ Get(ev, "encoding", "plain") # "base64"
   /\ ev.csv_data.reps = 0
   /\ utf8_encode(ev.csv_data).ok

\* The same request with its text in base64.
InBase64(ev) ==
   [k \in DOMAIN ev \cup {"encoding"} |->
      IF k = "csv_data" THEN Base64Of(ev.csv_data)
      ELSE IF k = "encoding" THEN "base64"
      ELSE ev[k]]

\* The client sends the request of the first invocation again, its text in
\* base64 this time, to the same process and bucket.
SecondInvocation ==
   /\ pc = "done"
   /\ entry = "lambda_handler"
   /\ invocation = 1
   /\ SentPlain(event)
   /\ invocation' = 2
   /\ event' = InBase64(event)
   /\ previous' = Some([response |-> response[1], put_calls |-> put_calls])
   /\ pc' = "start"
   /\ csv_data' = None
   /\ encoding' = "plain"
   /\ session_id' = ""
   /\ user_id' = None
   /\ s3_key' = <<>>
   /\ validation_result' = None
   /\ reader' = NoReader
   /\ row_count' = 0
   /\ row_num' = 0
   /\ response' = None
   /\ put_calls' = <<>>
   /\ UNCHANGED <<entry, s3>>

Next ==
   \/ ReadHeader
   \/ ValidateRows
   \/ HandlerStart
   \/ DecodeBase64
   \/ CheckSize
   \/ CheckVerdict
   \/ PutObject
   \/ RespondOk
   \/ SecondInvocation

Spec == Init /\ [][Next]_vars

(***************************************************************************)
(* The vocabulary of the properties: the records of the text validate_csv  *)
(* was given, as its reader holds them, and what the properties call a     *)
(* well-formed row, a summary row and a passing row.                       *)
(***************************************************************************)
\* validate_csv has returned, and its verdict.
Returned == validation_result # None

Verdict == validation_result[1]

\* The number of records after the first.
DataRowCount == RecordCount(reader) - 1

\* The first record is the schema.
HeaderIsSchema == RecordCount(reader) >= 1 /\ RecordAt(reader, 1) = EXPECTED_HEADER

\* The records at the positions lo..hi, the header being at position 1.  The
\* equal records of the repeated part are looked up once.
Rows(lo, hi) ==
   {RecordAt(reader, i) :
       i \in {j \in lo..hi : \/ j = lo
                             \/ j <= Len(reader.pre) + 1
                             \/ j > Len(reader.pre) + reader.reps}}

\* 22 columns, integers at indices 0 and 1, floats at indices 2 to 9.
WellFormedRow(row) ==
   /\ Len(row) = 22
   /\ \A i \in 1..2 : IsInt(row[i])
   /\ \A i \in 3..10 : IsFloat(row[i])

\* The first field of the row starts with "Positive Goals Collected".
StartsWithMarker(row) ==
   /\ Len(row) > 0
   /\ Len(row[1]) >= Len(SummaryMarker)
   /\ SubSeq(row[1], 1, Len(SummaryMarker)) = SummaryMarker

\* A row of another width than 22 whose first field starts with the marker.
SummaryRow(row) == Len(row) # 22 /\ StartsWithMarker(row)

PassingRow(row) == WellFormedRow(row) \/ SummaryRow(row)

\* The last record the reader returned is a data row that validate_csv
\* examined: the header was the schema, every data row before it passed, and
\* the row is not beyond the cap.
LastTaken == RecordAt(reader, reader.pos)

AtDataRow ==
   /\ HeaderIsSchema
   /\ reader.pos >= 2
   /\ reader.pos - 1 <= max_rows
   /\ \A row \in Rows(2, reader.pos - 1) : PassingRow(row)

\* The verdict invalid with the message of format fmt and the values params.
Rejected(fmt, params) ==
   Some([valid |-> FALSE, error |-> Some([fmt |-> fmt, params |-> params]),
         row_count |-> None])

Accepted(n) == Some([valid |-> TRUE, error |-> None, row_count |-> Some(n)])

\* The row last taken was accepted and counted: the loop went on, and if it
\* ended there the verdict counts the row.
LastTakenAccepted ==
   /\ row_count = reader.pos - 1
   /\ Returned => \/ validation_result = Accepted(reader.pos - 1)
                  \/ reader.raises /\ ~Verdict.valid

\* The two shapes of a verdict.
ValidShape(v) ==
   /\ v.valid = TRUE
   /\ v.error = None
   /\ v.row_count # None
   /\ v.row_count[1] \in 1..max_rows

InvalidShape(v) ==
   /\ v.valid = FALSE
   /\ v.error # None
   /\ v.error[1].fmt # ""
   /\ v.row_count = None

(***************************************************************************)
(* Properties of validate_csv                                              *)
(***************************************************************************)
\* C1: a text whose first record is the schema header and whose N data rows
\* (1 <= N <= max_rows) are all well formed gets the verdict valid, with
\* row_count N and no error.
C1_WellFormedRowsAreValid ==
   (/\ Returned
    /\ ~reader.raises
    /\ HeaderIsSchema
    /\ DataRowCount \in 1..max_rows
    /\ \A row \in Rows(2, DataRowCount + 1) : WellFormedRow(row))
   => validation_result = Some([valid |-> TRUE, error |-> None,
                                row_count |-> Some(DataRowCount)])

\* validate_csv returned valid for MaxDataRows well-formed rows.
C1_Witness ==
   /\ entry = "validate_csv"
   /\ pc = "done"
   /\ HeaderIsSchema
   /\ DataRowCount = MaxDataRows
   /\ \A row \in Rows(2, DataRowCount + 1) : WellFormedRow(row)
   /\ Verdict.valid
   /\ Verdict.row_count = Some(MaxDataRows)

VerdictShape ==
   Returned =>
      /\ Verdict.valid \in BOOLEAN
      /\ IF Verdict.valid THEN ValidShape(Verdict) ELSE InvalidShape(Verdict)

\* A step of validate_csv returns a verdict, or it is the step that took the
\* header and the loop is next, which returns.
ValidateStep ==
   /\ pc = "read_header" => (validation_result' # None \/ pc' = "rows")
   /\ pc = "rows" => validation_result' # None

\* C3: a data row whose column count is not 22, reached after all earlier
\* rows passed, is accepted and counted if its first field starts with the
\* marker; any other such row, a row without fields included, gets the
\* verdict invalid whose message names the row's number (its position among
\* the records, the header being 1) and the expected and actual counts.
C3_WrongColumnCount ==
   (AtDataRow /\ Len(LastTaken) # 22) =>
      IF StartsWithMarker(LastTaken)
         THEN LastTakenAccepted
         ELSE validation_result =
                 Rejected("Row {row_num}: Expected {len(EXPECTED_HEADER)} columns, got {len(row)}. ({row})",
                          <<reader.pos, 22, Len(LastTaken), LastTaken>>)

\* C4: every data row whose first field starts with the marker is accepted,
\* with no column-count check and no numeric check, whatever its number of
\* columns, 22 included.
C4_MarkerRowsAccepted ==
   (AtDataRow /\ StartsWithMarker(LastTaken)) => LastTakenAccepted

\* C4 as amended: every data row whose first field starts with the marker
\* and whose number of columns is not 22 is accepted, with no numeric check.
C4_SummaryRowsAccepted ==
   (AtDataRow /\ StartsWithMarker(LastTaken) /\ Len(LastTaken) # 22) =>
      LastTakenAccepted

\* A row of 23 columns that starts with the marker, so that its field 0 is no
\* integer, was the last row of a text that got the verdict valid.
C4_Witness ==
   /\ pc = "done"
   /\ AtDataRow
   /\ StartsWithMarker(LastTaken)
   /\ Len(LastTaken) = 23
   /\ ~IsInt(LastTaken[1])
   /\ reader.pos = RecordCount(reader)
   /\ validation_result = Accepted(reader.pos - 1)

\* The verdict of the cap.
TooManyRowsVerdict == Rejected("Too many rows (max {max_rows})", <<100000>>)

\* C5: the cap triggers when the row counter, after its increment, is
\* max_rows + 1.  A text with the schema header whose first max_rows data
\* rows pass and that has one more row at least gets the verdict "Too many
\* rows", whatever row max_rows + 1 holds; with exactly max_rows passing rows
\* the verdict is valid; and no other text gets the verdict of the cap.
C5_RowCap ==
   Returned =>
      /\ (/\ HeaderIsSchema
          /\ DataRowCount > max_rows
          /\ \A row \in Rows(2, max_rows + 1) : PassingRow(row))
         => /\ validation_result = TooManyRowsVerdict
            /\ row_count = max_rows + 1
      /\ (/\ HeaderIsSchema
          /\ DataRowCount = max_rows
          /\ ~reader.raises
          /\ \A row \in Rows(2, max_rows + 1) : PassingRow(row))
         => validation_result = Accepted(max_rows)
      /\ validation_result = TooManyRowsVerdict => row_count = max_rows + 1

\* The verdict of the cap for a text whose row max_rows + 1 has one column.
C5_Witness ==
   /\ validation_result = TooManyRowsVerdict
   /\ reader.pos = max_rows + 2
   /\ Len(LastTaken) = 1
   /\ ~StartsWithMarker(LastTaken)

\* C6: a 22-column row in which field 0 or 1 is no integer or one of the
\* fields 2 to 9 no number, reached with all earlier rows passing and within
\* the cap, gets the verdict invalid whose message names the row's number,
\* which is the row counter plus 1; later rows and the fields 10 to 21 have
\* no part in the verdict.
C6_FirstFailingRow ==
   (AtDataRow /\ Len(LastTaken) = 22 /\ ~WellFormedRow(LastTaken)) =>
      /\ validation_result =
            Rejected("Row {row_num}: Invalid numeric values in required fields",
                     <<reader.pos>>)
      /\ row_num = reader.pos
      /\ row_num = row_count + 1

\* The first data row failed its numeric check, its fields 10 to 21 are not
\* the ones of the second row, and a record that passes no check follows.
C6_Witness ==
   /\ pc = "done"
   /\ AtDataRow
   /\ reader.pos = 2
   /\ Len(LastTaken) = 22
   /\ ~WellFormedRow(LastTaken)
   /\ RecordCount(reader) = 3
   /\ ~PassingRow(RecordAt(reader, 3))
   /\ Verdict.error[1].params = <<2>>

\* The first record differs from the schema in length, in order or in an
\* element.
DiffersFromSchema(header) ==
   \/ Len(header) # 22
   \/ \E i \in 1..22 : header[i] # EXPECTED_HEADER[i]

\* C7: a first record that differs from the schema gets the verdict invalid
\* with the header-mismatch message before any data row is taken from the
\* reader, whatever rows follow; a text without any record gets "Empty CSV
\* file"; the schema header without data rows gets "No data rows found".
C7_HeaderVerdicts ==
   Returned =>
      /\ (RecordCount(reader) = 0 /\ ~reader.raises) =>
            validation_result = Rejected("Empty CSV file", <<>>)
      /\ (RecordCount(reader) >= 1 /\ DiffersFromSchema(RecordAt(reader, 1))) =>
            /\ validation_result =
                  Rejected("Header mismatch. Expected {len(EXPECTED_HEADER)} columns, got {len(header)}",
                           <<22, Len(RecordAt(reader, 1))>>)
            /\ reader.pos = 1
            /\ row_count = 0
      /\ (HeaderIsSchema /\ RecordCount(reader) = 1 /\ ~reader.raises) =>
            validation_result = Rejected("No data rows found", <<>>)

\* A header of 22 columns that differs from the schema in the case of one
\* element, with data rows after it, got the header-mismatch verdict.
C7_Witness ==
   /\ pc = "done"
   /\ Returned
   /\ RecordCount(reader) = 3
   /\ Len(RecordAt(reader, 1)) = 22
   /\ RecordAt(reader, 1)[1] = <<"e","p","i","s","o","d","e">>
   /\ \A i \in 2..22 : RecordAt(reader, 1)[i] = EXPECTED_HEADER[i]
   /\ ~Verdict.valid
   /\ Verdict.error[1].params = <<22, 22>>

\* C2: validate_csv ends by returning a verdict, what it does on an exception
\* included (its handler returns a verdict); and a verdict is either valid
\* with no error and 1 <= row_count <= max_rows, or invalid with a non-empty
\* error message and no row_count.
C2_AlwaysAVerdict ==
   /\ [][ValidateStep]_vars
   /\ [](entry = "validate_csv" /\ pc = "done" => Returned)
   /\ []VerdictShape

\* validate_csv returned the verdict of its exception handler: a row without
\* fields made row[0] raise.
C2_Witness ==
   /\ entry = "validate_csv"
   /\ pc = "done"
   /\ Returned
   /\ Verdict.error = Some([fmt |-> "CSV parsing error: {str(e)}",
                            params |-> <<"list index out of range">>])
   /\ RecordAt(reader, reader.pos) = <<>>

(***************************************************************************)
(* Properties of lambda_handler                                            *)
(***************************************************************************)
\* lambda_handler has returned, and the status code of its response.
Responded == entry = "lambda_handler" /\ pc = "done"

Status == response[1].statusCode

\* The response is an error response with this status and this message.
ErrorIs(code, fmt) ==
   /\ Status = code
   /\ DOMAIN response[1].body = {"error"}
   /\ response[1].body.error.fmt = fmt

NoPayload == "csv_data" \notin DOMAIN event \/ StrLen(event.csv_data) = 0

SentAsBase64 == "encoding" \in DOMAIN event /\ event.encoding = "base64"

NotValidated == validation_result = None /\ put_calls = <<>>

\* C8: the handler tests the payload, decodes base64, tests the size,
\* validates and puts, in this order, and the first test that fails decides
\* the response: 400 without payload, 400 when the base64 text does not
\* decode, 413 when the UTF-8 size is above 10 MiB (10 MiB itself passes),
\* 400 on an invalid verdict, 500 when the put fails, 500 with the generic
\* message on another exception, and 200 only when all of them passed.
C8_CheckOrder ==
   Responded =>
      IF NoPayload
         THEN ErrorIs(400, "Missing csv_data in request body. Got {event}") /\ NotValidated
      ELSE IF SentAsBase64 /\ ~b64decode_utf8(event.csv_data).ok
         THEN ErrorIs(400, "Invalid base64 encoding: {str(e)}") /\ NotValidated
      ELSE IF ~utf8_encode(csv_data[1]).ok
         THEN ErrorIs(500, "Internal server error") /\ NotValidated
      ELSE IF StrLen(utf8_encode(csv_data[1]).bytes) > 10 * 1024 * 1024
         THEN ErrorIs(413, "File too large. Max size: {MAX_FILE_SIZE} bytes") /\ NotValidated
      ELSE IF ~Returned
         THEN FALSE
      ELSE IF ~Verdict.valid
         THEN /\ ErrorIs(400, "Invalid CSV: {validation_result['error']}")
              /\ response[1].body.error.params = <<Verdict.error[1]>>
              /\ put_calls = <<>>
      ELSE IF Len(put_calls) # 1
         THEN FALSE
      ELSE IF ~put_calls[1].stored
         THEN ErrorIs(500, "S3 upload failed: {str(e)}")
      ELSE Status = 200

\* A text of exactly 10 MiB passed the size test and was validated.
C8_Witness ==
   /\ Responded
   /\ ~NoPayload
   /\ StrLen(utf8_encode(csv_data[1]).bytes) = 10 * 1024 * 1024
   /\ Returned
   /\ Status = 400

\* C9: in an invocation the put is attempted at most once and only after the
\* verdict valid; the response is 200 exactly when that put succeeded; a 400
\* or 413 response comes with no put; a failed put is not tried again; on
\* success the key is "{user_id}/{session_id}.csv" and the key, session id
\* and row count of the body are the key of the put, the session id of its
\* metadata and the row_count of the verdict.
C9_OnePut ==
   entry = "lambda_handler" =>
      /\ Len(put_calls) <= 1
      /\ put_calls # <<>> => (Returned /\ Verdict.valid = TRUE)
      /\ Responded =>
            /\ Status = 200 <=> (Len(put_calls) = 1 /\ put_calls[1].stored)
            /\ Status \in {400, 413} => put_calls = <<>>
            /\ Status = 200 =>
                  /\ response[1].body.s3_key =
                        << IF "user_id" \in DOMAIN event THEN event.user_id ELSE "None",
                           "/", response[1].body.session_id, ".csv" >>
                  /\ response[1].body.session_id \in
                        (IF "session_id" \in DOMAIN event THEN {event.session_id}
                         ELSE {generate_session_id(t) : t \in Clock})
                  /\ response[1].body.s3_key = put_calls[1].args.Key
                  /\ response[1].body.session_id = put_calls[1].args.Metadata.session_id
                  /\ response[1].body.row_count = Verdict.row_count[1]
                  /\ put_calls[1].args.Metadata.row_count = str(Verdict.row_count[1])
                  /\ put_calls[1].args.Key \in DOMAIN s3
                  /\ s3[put_calls[1].args.Key].Body = put_calls[1].args.Body

\* A request without user_id got the response 200 for two rows.
C9_Witness ==
   /\ Responded
   /\ Status = 200
   /\ "user_id" \notin DOMAIN event
   /\ response[1].body.s3_key[1] = "None"
   /\ response[1].body.row_count >= 1

\* The second invocation has returned; it got, in base64, the text the first
\* got as it is, with the same user_id and the same session_id supplied, and
\* the bucket answered its put, if any, the way it answered the first's.
TwinResponded ==
   /\ Responded
   /\ invocation = 2
   /\ previous # None
   /\ "session_id" \in DOMAIN event
   /\ (put_calls # <<>> /\ previous[1].put_calls # <<>>) =>
         put_calls[1].stored = previous[1].put_calls[1].stored

\* What an invocation put: key and bytes.
Puts(calls) == [i \in 1..Len(calls) |-> <<calls[i].args.Key, calls[i].args.Body>>]

SameResult ==
   /\ Status = previous[1].response.statusCode
   /\ response[1].body = previous[1].response.body
   /\ Puts(put_calls) = Puts(previous[1].put_calls)

\* C10: a request with its text plain and the request with the base64
\* encoding of the same text get the same status code and the same response
\* body, and store the same bytes under the same key.
C10_SameResult == TwinResponded => SameResult

\* C10 as amended: the same, for a text that is not empty.
C10_SameResultNonEmpty ==
   (TwinResponded /\ StrLen(event.csv_data) > 0) => SameResult

\* Both invocations stored a text with a character of two bytes and
\* responded 200.
C10_Witness ==
   /\ TwinResponded
   /\ Status = 200
   /\ previous[1].response.statusCode = 200
   /\ \E i \in 1..StrLen(csv_data[1]) : csv_data[1].head[i] = "U+00E9"
   /\ Puts(put_calls) = Puts(previous[1].put_calls)

=============================================================================
